---------------------------- MODULE Spec2Model ----------------------------
(***************************************************************************)
(* Model of the highlight-on-copy plugin (src/main.ts).                    *)
(*                                                                         *)
(* src/main.ts holds two variants of the plugin one after the other:       *)
(*   variant "A" (lines 1-206): injected stylesheet, properties --hbg,     *)
(*                --hfg, --hdur, background default "rgba(0, 255, 0, 0.5)" *)
(*   variant "B" (lines 208-394): applyStyles(), properties                *)
(*                --highlight-on-copy-bg/-fg/-duration, background         *)
(*                default "".                                              *)
(* The variable `variant` is fixed by Init and selects the code that the   *)
(* actions translate.                                                      *)
(*                                                                         *)
(* Time: the host's timers (window.setTimeout) are modelled by a table of  *)
(* pending timers holding the milliseconds left; a timer fires when its    *)
(* time left reaches 0 (the semantics of a fake-timer test clock).         *)
(* Texts typed in the duration field are sequences of one-character        *)
(* strings, so that parseInt and String() are computed, not assumed.       *)
(*                                                                         *)
(* Asynchrony: onload is suspended at `await this.loadSettings()` until    *)
(* the host's read completes, and an onChange handler at                   *)
(* `await this.plugin.saveSettings()` until the host's write completes;    *)
(* other handlers run in between.  saveData() takes the settings when it   *)
(* is called and the writes complete in the order of the calls.            *)
(***************************************************************************)
EXTENDS Integers, Sequences, FiniteSets, TLC

VARIABLES
    variant,           \* "A" or "B": which of the two variants of main.ts runs
    phase,             \* the host's view: "new" (constructed), "loaded" (load()
                       \* called onload), "unloaded" (unload() called onunload)
    loading,           \* onload is suspended at `await this.loadSettings()`
    registered,        \* the settings tab and the copy listener are registered
    writes,            \* blobs handed to saveData() whose write is pending
    persisted,         \* the host's persisted blob (what loadData() returns)
    settings,          \* this.settings
    styleInjected,     \* the <style id="highlight-on-copy-styles"> node is in <head>
    rootStyle,         \* inline custom properties of document.documentElement
    classActive,       \* "copy-highlight-active" in documentElement.classList
    highlightTimeout,  \* this.highlightTimeout (Null or a timer id)
    timers,            \* the window's pending timers
    nextTimerId,       \* the id the next window.setTimeout returns
    markers,           \* live CodeMirror 5 text markers
    session,           \* observer: the last processed copy event and the time since
    last               \* observer: the handler that ran last, with its inputs

vars == <<variant, phase, loading, registered, writes, persisted, settings,
          styleInjected, rootStyle, classActive, highlightTimeout, timers,
          nextTimerId, markers, session, last>>

---------------------------------------------------------------------------
(* Bounds of the model *)

\* longest text typed in the duration field
MaxLen == 2
\* largest timer id handed out in a run (bounds the number of setTimeout calls)
MaxTimerId == 3
\* largest timer id handed out in a run of the legacy specification
MaxLegacyTimerId == 4
\* largest duration whose decimal text is compared with what the field stores
MaxDecimal == 111
\* the clock advances by at most this many ms in one step
TickMs == 50
\* most writes of the settings blob that are pending at once, in the
\* specification of the saves and in the other specifications
MaxPendingWrites == 2
MaxSessionWrites == 1

---------------------------------------------------------------------------
(* Values *)

Null == 0

\* the value of this.settings before loadSettings has assigned it
Undefined == [undefined |-> TRUE]

Max(a, b) == IF a >= b THEN a ELSE b

Min(a, b) == IF a <= b THEN a ELSE b

Fields == {"backgroundColor", "foregroundColor", "duration"}

\* characters the user can type in the duration field
Alphabet == {"0", "1", "-", " ", "\t", "x"}

RECURSIVE TextsOfLen(_)
TextsOfLen(n) ==
    IF n = 0 THEN {<<>>}
    ELSE {Append(t, c) : t \in TextsOfLen(n - 1), c \in Alphabet}

DurationTexts == UNION {TextsOfLen(n) : n \in 0..MaxLen}

\* colour strings the user can type or the blob can hold ("" is the empty field)
ColorTexts == {"", "red"}

\* durations a persisted blob can hold (blob shape: duration: integer)
PersistedDurations == {-1, 200}

---------------------------------------------------------------------------
(* String(n) and parseInt(v) *)

DecimalDigits == <<"0", "1", "2", "3", "4", "5", "6", "7", "8", "9">>

RECURSIVE NatToText(_)
NatToText(n) ==
    IF n < 10 THEN <<DecimalDigits[n + 1]>>
    ELSE Append(NatToText(n \div 10), DecimalDigits[(n % 10) + 1])

\* String(n), and `${n}` in a template literal, for an integer n
NumberToString(n) == IF n < 0 THEN <<"-">> \o NatToText(-n) ELSE NatToText(n)

HexDigits == <<"0", "1", "2", "3", "4", "5", "6", "7", "8", "9",
               "a", "b", "c", "d", "e", "f">>

HexDigitsUpper == <<"0", "1", "2", "3", "4", "5", "6", "7", "8", "9",
                    "A", "B", "C", "D", "E", "F">>

\* the value of character c as a digit of the radix, or -1 when it is none
DigitValue(c, radix) ==
    IF \E i \in 1..radix : HexDigits[i] = c \/ HexDigitsUpper[i] = c
    THEN (CHOOSE i \in 1..radix : HexDigits[i] = c \/ HexDigitsUpper[i] = c) - 1
    ELSE -1

\* Characters of a text are one-character strings; a character that a
\* string of this notation cannot hold apart from others is named by its
\* code point ("U+00A0").  The vertical tab U+000B is held as itself.
VerticalTab == ""

\* StrWhiteSpaceChar of ECMA-262, which parseInt skips before the sign:
\* WhiteSpace (tab, vertical tab, form feed, U+FEFF and the space
\* separators Zs: space, U+00A0, U+1680, U+2000 - U+200A, U+202F, U+205F,
\* U+3000) and LineTerminator (line feed, carriage return, U+2028, U+2029)
WhiteSpace ==
    {" ", "\t", "\n", "\r", "\f", VerticalTab,
     "U+00A0", "U+FEFF", "U+2028", "U+2029", "U+1680",
     "U+2000", "U+2001", "U+2002", "U+2003", "U+2004", "U+2005", "U+2006",
     "U+2007", "U+2008", "U+2009", "U+200A", "U+202F", "U+205F", "U+3000"}

RECURSIVE TrimStart(_)
TrimStart(t) ==
    IF t # <<>> /\ Head(t) \in WhiteSpace THEN TrimStart(Tail(t)) ELSE t

\* the longest prefix of t made of digits of the radix
RECURSIVE DigitPrefix(_, _)
DigitPrefix(t, radix) ==
    IF t # <<>> /\ DigitValue(Head(t), radix) >= 0
    THEN <<Head(t)>> \o DigitPrefix(Tail(t), radix)
    ELSE <<>>

RECURSIVE DigitsValue(_, _, _)
DigitsValue(t, radix, acc) ==
    IF t = <<>> THEN acc
    ELSE DigitsValue(Tail(t), radix, acc * radix + DigitValue(Head(t), radix))

NaN == [nan |-> TRUE, val |-> 0]

Num(n) == [nan |-> FALSE, val |-> n]

\* parseInt(v) with no radix argument (ECMAScript parseInt): leading white
\* space is skipped, then an optional sign, then an optional 0x / 0X prefix
\* (radix 16), then the longest run of digits; NaN when that run is empty.
parseInt(v) ==
    LET s     == TrimStart(v)
        neg   == s # <<>> /\ Head(s) = "-"
        s2    == IF s # <<>> /\ Head(s) \in {"-", "+"} THEN Tail(s) ELSE s
        hex   == Len(s2) >= 2 /\ s2[1] = "0" /\ s2[2] \in {"x", "X"}
        radix == IF hex THEN 16 ELSE 10
        s3    == IF hex THEN Tail(Tail(s2)) ELSE s2
        ds    == DigitPrefix(s3, radix)
    IN  IF ds = <<>> THEN NaN
        ELSE Num((IF neg THEN -1 ELSE 1) * DigitsValue(ds, radix, 0))

isNaN(n) == n.nan

---------------------------------------------------------------------------
(* Settings store *)

\* DEFAULT_SETTINGS of the running variant
DEFAULT_SETTINGS ==
    [backgroundColor |-> IF variant = "A" THEN "rgba(0, 255, 0, 0.5)" ELSE "",
     foregroundColor |-> "",
     duration        |-> 100]

\* A persisted blob: `has` is the set of fields present in it; an absent
\* field carries a fixed filler that nothing reads.
Blob(has, bg, fg, d) ==
    [has             |-> has,
     backgroundColor |-> IF "backgroundColor" \in has THEN bg ELSE "",
     foregroundColor |-> IF "foregroundColor" \in has THEN fg ELSE "",
     duration        |-> IF "duration" \in has THEN d ELSE 0]

Blobs ==
    {Blob(has, bg, fg, d) : has \in SUBSET Fields, bg \in ColorTexts,
                            fg \in ColorTexts, d \in PersistedDurations}

\* mutant: Object.assign({}, blob, DEFAULT_SETTINGS), the defaults win
loadSettingsDefaultsWin(blob) == [f \in Fields |-> DEFAULT_SETTINGS[f]]

\* Object.assign({}, DEFAULT_SETTINGS, blob): per field, the blob's value
\* when the blob has the field, else the default
loadSettings(blob) ==
    [f \in Fields |-> IF f \in blob.has THEN blob[f] ELSE DEFAULT_SETTINGS[f]]

\* mutant: the handler does not call saveSettings
saveSettingsSkipped(s) == persisted

\* saveData(this.settings): the blob holds the three fields of the settings
saveSettings(s) ==
    Blob(Fields, s.backgroundColor, s.foregroundColor, s.duration)

---------------------------------------------------------------------------
(* Style properties and timers of the host page *)

\* style.setProperty(name, value) / style.removeProperty(name) on one
\* property: the property's value afterwards, "" (for the duration <<>>)
\* being the value of a property that is not set.  setProperty with an
\* empty value removes the property.
setProperty(value) == value

\* no inline custom property is set
NoStyle == [bg |-> "", fg |-> "", dur |-> <<>>]

\* mutant: both variants write fg || "inherit"
liveForegroundOrInherit(fg) == IF fg # "" THEN fg ELSE "inherit"

\* the value written to the foreground property for settings value fg:
\* variant A writes fg || "inherit"; variant B sets fg when it is non-empty
\* and removes the property otherwise
liveForeground(fg) ==
    IF variant = "A"
    THEN (IF fg # "" THEN setProperty(fg) ELSE setProperty("inherit"))
    ELSE (IF fg # "" THEN setProperty(fg) ELSE "")

\* the value written to the background property for settings value bg:
\* variant A sets it to bg (an empty bg removes it); variant B sets bg when
\* it is non-empty and removes the property otherwise
liveBackground(bg) ==
    IF variant = "A"
    THEN setProperty(bg)
    ELSE (IF bg # "" THEN setProperty(bg) ELSE "")

\* `${duration}ms`
liveDuration(d) == NumberToString(d) \o <<"m", "s">>

\* the three live properties after the copy handler applied settings s
applyStyles(s) ==
    [bg  |-> liveBackground(s.backgroundColor),
     fg  |-> liveForeground(s.foregroundColor),
     dur |-> setProperty(liveDuration(s.duration))]

\* window.setTimeout(callback, delay): the new pending timer.  The host
\* clamps a negative delay to 0.  `kind` names the callback: "revert"
\* removes the root class and resets highlightTimeout, "marker" clears the
\* range marker created with it.
setTimeout(id, kind, delay) ==
    [id |-> id, kind |-> kind, delay |-> delay, left |-> Max(0, delay)]

\* window.clearTimeout(h) on the table ts of pending timers
clearTimeout(ts, h) == {t \in ts : t.id # h}

\* mutant: the pending revert timer is not cancelled
cancelPendingMissing(ts, h) == ts

\* if (this.highlightTimeout !== null) window.clearTimeout(this.highlightTimeout)
cancelPending(ts, h) == IF h # Null THEN clearTimeout(ts, h) ELSE ts

\* mutant: the copy handler does not add the class
classListAddMissing(present) == present

\* classList.add / classList.remove of "copy-highlight-active": the
\* presence of the class afterwards
classListAdd(present) == TRUE

\* mutant: the timer callback does not remove the class
classListRemoveMissing(present) == present

classListRemove(present) == FALSE

\* mutant: the timer callback leaves the handle of the fired timer
resetHandleMissing(h) == h

\* this.highlightTimeout = null in the revert callback
resetHandle(h) == Null

---------------------------------------------------------------------------
(* Inputs of a copy event: the active view and its editor *)

Views == {"none", "preview", "source"}

\* `cm` of the editor object: "absent" (no such key), "undefined" (key
\* present, no handle), "bare" (a handle without markText), "cm5" (a
\* CodeMirror 5 handle)
CmHandles == {"absent", "undefined", "bare", "cm5"}

Pos(line, ch) == [line |-> line, ch |-> ch]

Sel(anchor, head) == [anchor |-> anchor, head |-> head]

Editor(hasState, cm, sels) == [hasState |-> hasState, cm |-> cm, sels |-> sels]

\* the editor of a view that is not in source mode is not read
NoEditor == Editor(FALSE, "absent", <<>>)

\* a CodeMirror 6 editor, and a CodeMirror 5 editor whose first selection
\* runs backwards from line 2 col 5 to line 1 col 3
ModernEditor == Editor(TRUE, "absent", <<>>)

LegacyEditor == Editor(FALSE, "cm5", <<Sel(Pos(2, 5), Pos(1, 3))>>)

\* the (view, editor) pairs a copy event meets
CopyInputs ==
    {<<"none", NoEditor>>, <<"preview", NoEditor>>,
     <<"source", ModernEditor>>, <<"source", LegacyEditor>>}

\* mutant: the handler does not return when there is no view
eligibleAlways(view) == TRUE

\* if (!view) return
eligible(view) == view # "none"

\* mutant: an editor with the state-based API is modern
isCM6StateOnly(editor) == editor.hasState

\* "state" in editor && !("cm" in editor)
isCM6(editor) == editor.hasState /\ editor.cm = "absent"

---------------------------------------------------------------------------
(* Legacy range highlighter *)

\* mutant: only the lines of the two ends are compared
headFirstLineOnly(anchor, head) == head.line < anchor.line

\* head.line < anchor.line || (head.line === anchor.line && head.ch < anchor.ch)
headFirst(anchor, head) ==
    \/ head.line < anchor.line
    \/ (head.line = anchor.line /\ head.ch < anchor.ch)

\* the (from, to) pair handed to cm.markText for the selection sel
markRange(sel) ==
    IF headFirst(sel.anchor, sel.head)
    THEN [from |-> sel.head, to |-> sel.anchor]
    ELSE [from |-> sel.anchor, to |-> sel.head]

\* mutant: any handle object marks a range
marksRangeAnyHandle(editor) ==
    editor.cm \in {"bare", "cm5"} /\ Len(editor.sels) > 0

\* handleCM5Highlight marks a range: the handle has markText and the
\* selection list is not empty
marksRange(editor) == editor.cm = "cm5" /\ Len(editor.sels) > 0

\* onCopy reaches handleCM5Highlight: source mode and not isCM6
legacyPath(view, editor) == view = "source" /\ ~isCM6(editor)

\* the markers and timers after handleCM5Highlight(editor), the marker's
\* clearing timer taking the id `id`; the marker is known by that id.
\* A marker also records, for observation, the duration it was created
\* with and the time it has been live.
handleCM5Highlight(editor, ms, ts, id, duration) ==
    IF ~marksRange(editor)
    THEN [markers |-> ms, timers |-> ts]
    ELSE LET r == markRange(editor.sels[1])
         IN  [markers |-> ms \cup {[id |-> id, from |-> r.from, to |-> r.to,
                                    duration |-> duration, age |-> 0]},
              timers  |-> ts \cup {setTimeout(id, "marker", duration)}]

---------------------------------------------------------------------------
(* Observers *)

NoSession == [state |-> "none", duration |-> 0, elapsed |-> 0, restarted |-> FALSE]

\* the handler `op` ran with these inputs; for an edit of the settings
\* panel, prevColor or prevDuration is the value the edited field held
Ran(op, view, editor, text, color, kind) ==
    [op |-> op, view |-> view, editor |-> editor, text |-> text,
     color |-> color, kind |-> kind,
     prevColor    |-> IF op = "background" THEN settings.backgroundColor
                      ELSE IF op = "foreground" THEN settings.foregroundColor
                      ELSE "",
     prevDuration |-> IF op = "duration" THEN settings.duration ELSE 0]

RanOp(op) == Ran(op, "none", NoEditor, <<>>, "", "")

---------------------------------------------------------------------------
(* Initial state: the plugin object is constructed, onload has not run *)

InitWith(blobs) ==
    /\ variant \in {"A", "B"}
    /\ phase = "new"
    /\ persisted \in blobs
    /\ loading = FALSE
    /\ registered = FALSE
    /\ writes = <<>>
    /\ settings = Undefined
    /\ styleInjected = FALSE
    /\ rootStyle = NoStyle
    /\ classActive = FALSE
    /\ highlightTimeout = Null
    /\ timers = {}
    /\ nextTimerId = 1
    /\ markers = {}
    /\ session = NoSession
    /\ last = RanOp("new")

---------------------------------------------------------------------------
(* Plugin lifecycle *)

\* the host loads the plugin: onload() runs to `await this.loadSettings()`,
\* where loadSettings waits for loadData()
onload ==
    /\ phase = "new"
    /\ phase' = "loaded"
    /\ loading' = TRUE
    /\ last' = RanOp("onload")
    /\ UNCHANGED <<variant, registered, writes, persisted, settings,
                   styleInjected, rootStyle, classActive, highlightTimeout,
                   timers, nextTimerId, markers, session>>

\* the read completes: loadSettings assigns this.settings and onload goes
\* on with addSettingTab, registerDomEvent and (A) injectStyles, whether or
\* not the host has unloaded the plugin meanwhile
onloadResumes ==
    /\ loading
    /\ loading' = FALSE
    /\ settings' = loadSettings(persisted)
    /\ registered' = TRUE
    /\ styleInjected' = (variant = "A")
    /\ last' = RanOp("loaded")
    /\ UNCHANGED <<variant, phase, writes, persisted, rootStyle, classActive,
                   highlightTimeout, timers, nextTimerId, markers, session>>

\* mutant: the node is toggled instead of removed
removeStyleNodeToggles(injected) == ~injected

\* the style node after onunload of variant A: if (style) style.remove()
removeStyleNode(injected) == FALSE

\* the inline properties after onunload: variant B removes the three
\* properties, variant A leaves them
removeProperties(style) == IF variant = "B" THEN NoStyle ELSE style

\* mutant: onunload also ends the highlight
onunloadEndsHighlight ==
    /\ phase \in {"loaded", "unloaded"}
    /\ phase' = "unloaded"
    /\ styleInjected' = FALSE
    /\ rootStyle' = removeProperties(rootStyle)
    /\ classActive' = FALSE
    /\ highlightTimeout' = Null
    /\ timers' = {}
    /\ registered' = (IF phase = "loaded" THEN FALSE ELSE registered)
    /\ last' = Ran("onunload", "none", NoEditor, <<>>, "", last.op)
    /\ UNCHANGED <<variant, loading, writes, persisted, settings, nextTimerId,
                   markers, session>>

\* onunload().  When the host's unload() calls it, the host then detaches
\* the settings tab and the copy listener registered so far; a suspended
\* onload and pending writes go on.  last.kind records the handler that
\* ran before it.
onunload ==
    /\ phase \in {"loaded", "unloaded"}
    /\ phase' = "unloaded"
    /\ styleInjected' = (IF variant = "A" THEN removeStyleNode(styleInjected)
                         ELSE styleInjected)
    /\ rootStyle' = removeProperties(rootStyle)
    /\ registered' = (IF phase = "loaded" THEN FALSE ELSE registered)
    /\ last' = Ran("onunload", "none", NoEditor, <<>>, "", last.op)
    /\ UNCHANGED <<variant, loading, writes, persisted, settings, classActive,
                   highlightTimeout, timers, nextTimerId, markers, session>>

---------------------------------------------------------------------------
(* Settings panel *)

\* the background stored for input v: variant A stores
\* v || DEFAULT_SETTINGS.backgroundColor, variant B stores v
backgroundInput(v) ==
    IF variant = "A"
    THEN (IF v # "" THEN v ELSE DEFAULT_SETTINGS.backgroundColor)
    ELSE v

\* mutant: the foreground falls back like the background of variant A
foregroundInputOrInherit(v) == IF v # "" THEN v ELSE "inherit"

\* the foreground stored for input v
foregroundInput(v) == v

\* mutant: Math.max(0, n) is missing
durationInputUnclamped(v) ==
    LET n == parseInt(v)
    IN  IF isNaN(n) THEN DEFAULT_SETTINGS.duration ELSE n.val

\* mutant: an unparsable text keeps the stored duration
durationInputKeepsPrior(v) ==
    LET n == parseInt(v)
    IN  IF isNaN(n) THEN settings.duration ELSE Max(0, n.val)

\* the duration stored for input text v:
\* isNaN(n) ? DEFAULT_SETTINGS.duration : Math.max(0, n), n = parseInt(v)
durationInput(v) ==
    LET n == parseInt(v)
    IN  IF isNaN(n) THEN DEFAULT_SETTINGS.duration ELSE Max(0, n.val)

\* mutant: an edit also writes the live style properties
EditAppliesStyles(field, value, ran, maxWrites) ==
    /\ registered
    /\ Len(writes) < maxWrites
    /\ settings' = [settings EXCEPT ![field] = value]
    /\ writes' = Append(writes, saveSettings(settings'))
    /\ rootStyle' = applyStyles(settings')
    /\ last' = ran
    /\ UNCHANGED <<variant, phase, loading, registered, persisted,
                   styleInjected, classActive, highlightTimeout, timers,
                   nextTimerId, markers, session>>

\* onChange of a field: assign the stored value, then call saveSettings(),
\* which hands the settings to saveData(); the handler is suspended at its
\* await until the write is done; at most maxWrites writes are pending
Edit(field, value, ran, maxWrites) ==
    /\ registered
    /\ Len(writes) < maxWrites
    /\ settings' = [settings EXCEPT ![field] = value]
    /\ writes' = Append(writes, saveSettings(settings'))
    /\ last' = ran
    /\ UNCHANGED <<variant, phase, loading, registered, persisted,
                   styleInjected, rootStyle, classActive, highlightTimeout,
                   timers, nextTimerId, markers, session>>

\* the oldest pending write of saveData() completes: the host's blob is
\* the settings handed to it
saveDataCompletes ==
    /\ writes # <<>>
    /\ persisted' = Head(writes)
    /\ writes' = Tail(writes)
    /\ last' = RanOp("saved")
    /\ UNCHANGED <<variant, phase, loading, registered, settings,
                   styleInjected, rootStyle, classActive, highlightTimeout,
                   timers, nextTimerId, markers, session>>

backgroundOnChange(maxWrites) ==
    \E v \in ColorTexts :
        Edit("backgroundColor", backgroundInput(v),
             Ran("background", "none", NoEditor, <<>>, v, ""), maxWrites)

foregroundOnChange(maxWrites) ==
    \E v \in ColorTexts :
        Edit("foregroundColor", foregroundInput(v),
             Ran("foreground", "none", NoEditor, <<>>, v, ""), maxWrites)

durationOnChange(texts, maxWrites) ==
    \E v \in texts :
        Edit("duration", durationInput(v),
             Ran("duration", "none", NoEditor, v, "", ""), maxWrites)

---------------------------------------------------------------------------
(* Copy event handler *)

\* the timers a processed copy event schedules
timersNeeded(view, editor) ==
    IF legacyPath(view, editor) /\ marksRange(editor) THEN 2 ELSE 1

\* onCopy(_ev) with the active view `view` (its mode, or "none") and, in
\* source mode, its editor; the host hands out timer ids up to maxId
onCopyWith(view, editor, maxId) ==
    LET afterCancel == cancelPending(timers, highlightTimeout)
        revertId    == nextTimerId
        withRevert  == afterCancel
                         \cup {setTimeout(revertId, "revert", settings.duration)}
        legacy      == IF legacyPath(view, editor)
                       THEN handleCM5Highlight(editor, markers, withRevert,
                                               revertId + 1, settings.duration)
                       ELSE [markers |-> markers, timers |-> withRevert]
    IN  /\ registered
        /\ last' = Ran("copy", view, editor, <<>>, "", "")
        /\ IF ~eligible(view)
           THEN UNCHANGED <<rootStyle, classActive, highlightTimeout, timers,
                            nextTimerId, markers, session>>
           ELSE /\ nextTimerId + timersNeeded(view, editor) - 1 <= maxId
                /\ rootStyle' = applyStyles(settings)
                /\ classActive' = classListAdd(classActive)
                /\ highlightTimeout' = revertId
                /\ timers' = legacy.timers
                /\ markers' = legacy.markers
                /\ nextTimerId' = nextTimerId + timersNeeded(view, editor)
                /\ session' = [state     |-> "open",
                               duration  |-> settings.duration,
                               elapsed   |-> 0,
                               restarted |-> classActive]
        /\ UNCHANGED <<variant, phase, loading, registered, writes, persisted,
                       settings, styleInjected>>

onCopy(inputs, maxId) ==
    \E in \in inputs : onCopyWith(in[1], in[2], maxId)

---------------------------------------------------------------------------
(* Timers *)

\* the callback of a due timer t runs
timeoutOf(t) ==
    /\ t \in timers
    /\ t.left = 0
    /\ timers' = timers \ {t}
    /\ last' = Ran("timeout", "none", NoEditor, <<>>, "", t.kind)
    /\ IF t.kind = "revert"
       THEN /\ classActive' = classListRemove(classActive)
            /\ highlightTimeout' = resetHandle(highlightTimeout)
            /\ session' = IF session.state = "open"
                          THEN [session EXCEPT !.state = "closed"]
                          ELSE session
            /\ UNCHANGED markers
       ELSE /\ markers' = {m \in markers : m.id # t.id}
            /\ UNCHANGED <<classActive, highlightTimeout, session>>
    /\ UNCHANGED <<variant, phase, loading, registered, writes, persisted,
                   settings, styleInjected, rootStyle, nextTimerId>>

timeout == \E t \in timers : timeoutOf(t)

\* the ms to the next deadline
nextDeadline == CHOOSE d \in {t.left : t \in timers} :
                    \A t \in timers : d <= t.left

\* time passes while timers are pending and none is due: the clock
\* advances to the next deadline, by at most TickMs
tick ==
    /\ timers # {}
    /\ \A t \in timers : t.left > 0
    /\ LET d == Min(TickMs, nextDeadline)
       IN  /\ timers' = {[t EXCEPT !.left = @ - d] : t \in timers}
           /\ markers' = {[m EXCEPT !.age = @ + d] : m \in markers}
           /\ session' = IF session.state = "open"
                         THEN [session EXCEPT !.elapsed = @ + d]
                         ELSE session
    /\ last' = RanOp("tick")
    /\ UNCHANGED <<variant, phase, loading, registered, writes, persisted,
                   settings, styleInjected, rootStyle, classActive,
                   highlightTimeout, nextTimerId>>

---------------------------------------------------------------------------
(* Specifications *)

\* LoadSpec: the plugin is loaded from every persisted blob, and unloaded
LoadInit == InitWith(Blobs)

LoadNext ==
    \/ onload
    \/ onloadResumes
    \/ onunload

LoadSpec == LoadInit /\ [][LoadNext]_vars

\* SettingsSpec: the duration field, every text of DurationTexts typed.
\* The persisted blob is absent, holds a negative duration, or holds
\* {"red", "", 200}.
SessionBlobs ==
    {Blob({}, "", "", 0), Blob({"duration"}, "", "", -1),
     Blob(Fields, "red", "", 200)}

SettingsInit == InitWith(SessionBlobs)

SettingsNext ==
    \/ onload
    \/ onloadResumes
    \/ durationOnChange(DurationTexts, MaxSessionWrites)
    \/ saveDataCompletes

SettingsSpec == SettingsInit /\ [][SettingsNext]_vars

\* SaveSpec: edits of the three fields and their writes, several of them
\* pending at once, the plugin being unloaded at any point
SessionDurationTexts == {<<>>, <<"0">>}

SaveNext ==
    \/ onload
    \/ onloadResumes
    \/ onunload
    \/ backgroundOnChange(MaxPendingWrites)
    \/ foregroundOnChange(MaxPendingWrites)
    \/ durationOnChange(SessionDurationTexts, MaxPendingWrites)
    \/ saveDataCompletes

SaveSpec == SettingsInit /\ [][SaveNext]_vars

\* StyleSpec: the settings panel and copy events in a preview or with no
\* view.  The persisted blob is absent or holds {"red", "", 200}; the
\* duration field receives "0".
StyleCopyInputs == {<<"none", NoEditor>>, <<"preview", NoEditor>>}

StyleBlobs == {Blob({}, "", "", 0), Blob(Fields, "red", "", 200)}

StyleDurationTexts == {<<"0">>}

StyleInit == InitWith(StyleBlobs)

StyleNext ==
    \/ onload
    \/ onloadResumes
    \/ onunload
    \/ backgroundOnChange(MaxSessionWrites)
    \/ foregroundOnChange(MaxSessionWrites)
    \/ durationOnChange(StyleDurationTexts, MaxSessionWrites)
    \/ saveDataCompletes
    \/ onCopy(StyleCopyInputs, MaxTimerId)
    \/ timeout
    \/ tick

StyleSpec == StyleInit /\ [][StyleNext]_vars

\* Spec: the plugin without the two colour fields of the panel (they touch
\* neither the timers nor the root class).  The duration field receives ""
\* and "0"; a copy event meets no view, a preview, a modern source editor
\* or a legacy source editor with a backwards selection.
Init == InitWith(SessionBlobs)

Next ==
    \/ onload
    \/ onloadResumes
    \/ onunload
    \/ durationOnChange(SessionDurationTexts, MaxSessionWrites)
    \/ saveDataCompletes
    \/ onCopy(CopyInputs, MaxTimerId)
    \/ timeout
    \/ tick

Spec == Init /\ [][Next]_vars

\* FairSpec: loading, unloading and copy events under the host's
\* scheduling: the clock advances and a due timer's callback is run.
FairNext ==
    \/ onload
    \/ onloadResumes
    \/ onunload
    \/ onCopy(CopyInputs, MaxTimerId)
    \/ timeout
    \/ tick

FairSpec == Init /\ [][FairNext]_vars /\ WF_vars(tick) /\ WF_vars(timeout)

\* LegacySpec: copy events on every kind of editor.  The persisted blob is
\* absent or holds a negative duration; the duration field receives "50",
\* its write staying pending;
\* a selection runs between any two of four positions, in either direction.
LegacyPositions == {Pos(1, 3), Pos(1, 5), Pos(2, 3), Pos(2, 5)}

LegacySels == {Sel(a, h) : a \in LegacyPositions, h \in LegacyPositions}

\* editors: CodeMirror 5 with one selection, with none and with two; a
\* handle next to the state-based API; handles without markText, one of
\* them with a selection; no handle at all; CodeMirror 6
LegacyEditors ==
    {Editor(FALSE, "cm5", <<sel>>) : sel \in LegacySels}
      \cup {Editor(FALSE, "cm5", <<>>),
            Editor(FALSE, "cm5", <<Sel(Pos(2, 3), Pos(1, 5)),
                                   Sel(Pos(1, 3), Pos(2, 5))>>),
            Editor(TRUE, "cm5", <<Sel(Pos(1, 5), Pos(2, 3))>>),
            Editor(FALSE, "bare", <<Sel(Pos(1, 3), Pos(1, 5))>>),
            Editor(TRUE, "undefined", <<>>),
            Editor(FALSE, "absent", <<>>),
            ModernEditor}

LegacyCopyInputs ==
    {<<"none", NoEditor>>, <<"preview", NoEditor>>}
      \cup {<<"source", ed>> : ed \in LegacyEditors}

LegacyBlobs == {Blob({}, "", "", 0), Blob({"duration"}, "", "", -1)}

LegacyDurationTexts == {<<"5", "0">>}

LegacyInit == InitWith(LegacyBlobs)

LegacyNext ==
    \/ onload
    \/ onloadResumes
    \/ durationOnChange(LegacyDurationTexts, MaxSessionWrites)
    \/ onCopy(LegacyCopyInputs, MaxLegacyTimerId)
    \/ timeout
    \/ tick

LegacySpec == LegacyInit /\ [][LegacyNext]_vars

---------------------------------------------------------------------------
(* Copy event handler and highlight session: C1 - C5, under Spec / FairSpec *)

\* a copy event was just processed with an eligible view
CopyProcessed == last.op = "copy" /\ last.view # "none"

\* C1: the root marker class is removed exactly `duration` ms after the
\* most recent processed copy event (duration as it was at that event),
\* never earlier because of an older event's timer.
RemovedAfterDuration ==
    session.state = "closed" => session.elapsed = session.duration

\* C2: a copy event with no active markdown view changes none of the live
\* style properties, the root marker class, the pending timers, the stored
\* timer handle and the legacy markers.
CopyWithoutViewIsNoOp ==
    [][(last'.op = "copy" /\ last'.view = "none")
          => UNCHANGED <<rootStyle, classActive, highlightTimeout, timers,
                         nextTimerId, markers>>]_vars

\* a copy event without a view arrived while Highlighting, a legacy marker
\* being live
CopyWithoutViewWitness ==
    /\ last.op = "copy"
    /\ last.view = "none"
    /\ classActive
    /\ highlightTimeout # Null
    /\ markers # {}

\* C3: right after a processed copy event the root marker class is present
\* and the stored handle names a pending revert timer set for the current
\* duration with its whole delay left.
HighlightingAfterCopy ==
    CopyProcessed =>
        /\ classActive
        /\ highlightTimeout # Null
        /\ \E t \in timers :
               /\ t.id = highlightTimeout
               /\ t.kind = "revert"
               /\ t.delay = settings.duration
               /\ t.left = Max(0, settings.duration)

\* a copy event was processed while Highlighting and restarted the timer
\* with the whole default duration
HighlightingAfterCopyWitness ==
    /\ CopyProcessed
    /\ session.restarted
    /\ classActive
    /\ \E t \in timers : t.id = highlightTimeout /\ t.left = 100

\* C4: while Highlighting, unless a further copy event is processed, the
\* revert timer eventually fires: the root marker class is removed and the
\* stored handle is null again.
HighlightEventuallyReverts ==
    \A n \in 1..(MaxTimerId + 1) :
        (classActive /\ nextTimerId = n)
            ~> ((~classActive /\ highlightTimeout = Null) \/ nextTimerId # n)

\* the revert timer fired and left the plugin Idle
RevertedWitness ==
    /\ last.op = "timeout"
    /\ last.kind = "revert"
    /\ session.state = "closed"
    /\ ~classActive
    /\ highlightTimeout = Null

\* C5 as stated: after a processed copy event the background property is
\* the configured background, the foreground property is the configured
\* foreground or "inherit" when that is empty, and the duration property is
\* the duration followed by "ms".
LiveStyleOrInherit ==
    CopyProcessed =>
        /\ rootStyle.bg = settings.backgroundColor
        /\ rootStyle.fg = (IF settings.foregroundColor = "" THEN "inherit"
                           ELSE settings.foregroundColor)
        /\ rootStyle.dur = NumberToString(settings.duration) \o <<"m", "s">>

\* C5 amended: as stated, except that for an empty configured foreground
\* variant A sets the foreground property to "inherit" and variant B
\* leaves the foreground property unset.
LiveStyleReflectsSettings ==
    CopyProcessed =>
        /\ rootStyle.bg = settings.backgroundColor
        /\ rootStyle.fg = (IF settings.foregroundColor # ""
                           THEN settings.foregroundColor
                           ELSE IF variant = "A" THEN "inherit" ELSE "")
        /\ rootStyle.dur = NumberToString(settings.duration) \o <<"m", "s">>
        /\ (settings.duration = 200
               => rootStyle.dur = <<"2", "0", "0", "m", "s">>)

\* a copy event was processed with settings {"red", "", 200}
LiveStyleWitness ==
    /\ CopyProcessed
    /\ settings = [backgroundColor |-> "red", foregroundColor |-> "",
                   duration |-> 200]
    /\ rootStyle.bg = "red"
    /\ rootStyle.fg = (IF variant = "A" THEN "inherit" ELSE "")
    /\ rootStyle.dur = <<"2", "0", "0", "m", "s">>

---------------------------------------------------------------------------
(* Settings store and settings panel: C6 - C10, under SettingsSpec *)

\* C6: in every state after the settings were loaded the stored duration
\* is a non-negative integer.
DurationNonNegative == settings # Undefined => settings.duration >= 0

\* C7: after an edit of the duration field with text v the stored duration
\* is the default 100 when v does not parse as an integer and max(0, n)
\* when it parses as n; the decimal text of a non-negative integer d is
\* stored as d.
DurationEditStoresParsed ==
    last.op = "duration" =>
        LET n == parseInt(last.text)
        IN  /\ isNaN(n) => settings.duration = 100
            /\ ~isNaN(n) => settings.duration = Max(0, n.val)
            /\ \A d \in 0..MaxDecimal :
                   last.text = NumberToString(d) => settings.duration = d
            /\ last.text = <<"\t", "1">> => settings.duration = 1

\* the duration field received "-1", a tab before "1" or, from another
\* stored value, "11"
DurationEditWitness ==
    /\ last.op = "duration"
    /\ \/ (last.text = <<"-", "1">> /\ settings.duration = 0)
       \/ (last.text = <<"\t", "1">> /\ settings.duration = 1)
       \/ (last.text = <<"1", "1">> /\ settings.duration = 11
           /\ last.prevDuration # 11)

\* the text does not parse as an integer, or parses as a negative one
BadDurationText(v) == isNaN(parseInt(v)) \/ parseInt(v).val < 0

\* C8 as stated: after an edit of the duration field with a non-integer or
\* negative text the stored duration is what it was before the edit.
BadDurationKeepsPrior ==
    (last.op = "duration" /\ BadDurationText(last.text))
        => settings.duration = last.prevDuration

\* C8 amended: after an edit of the duration field with a text that does
\* not parse as an integer the stored duration is the default 100, and
\* with a text that parses as a negative integer it is 0, whatever the
\* duration was before the edit.
BadDurationResets ==
    (last.op = "duration" /\ BadDurationText(last.text))
        => settings.duration = (IF isNaN(parseInt(last.text)) THEN 100 ELSE 0)

\* "x" was typed while another duration than the default was stored
BadDurationWitness ==
    /\ last.op = "duration"
    /\ last.text = <<"x">>
    /\ last.prevDuration \notin {0, 100}
    /\ settings.duration = 100

\* C9: once loadSettings has assigned them, each field of the settings is
\* the persisted value when the blob has the field and the hardcoded
\* default otherwise; before that the settings are undefined.
LoadMergesOverDefaults ==
    /\ (phase = "new" \/ last.op = "onload") => settings = Undefined
    /\ last.op = "loaded" =>
        \A f \in Fields :
            settings[f] = (IF f \in persisted.has THEN persisted[f]
                           ELSE DEFAULT_SETTINGS[f])

\* a blob holding the duration alone was loaded
LoadMergeWitness ==
    /\ last.op = "loaded"
    /\ persisted.has = {"duration"}
    /\ settings.duration = 200
    /\ settings.backgroundColor = DEFAULT_SETTINGS.backgroundColor

\* C10 as stated: after an edit of a colour field with text v the stored
\* colour is v.
ColorStoredVerbatim ==
    /\ last.op = "background" => settings.backgroundColor = last.color
    /\ last.op = "foreground" => settings.foregroundColor = last.color

\* C10 amended: the foreground field stores v; the background field stores
\* v, except that variant A stores its default background for the empty v.
ColorStoredOrDefault ==
    /\ last.op = "foreground" => settings.foregroundColor = last.color
    /\ last.op = "background" =>
           settings.backgroundColor =
               (IF variant = "A" /\ last.color = ""
                THEN "rgba(0, 255, 0, 0.5)" ELSE last.color)

\* the foreground was emptied while a colour was stored
ColorEditWitness ==
    /\ last.op = "foreground"
    /\ last.color = ""
    /\ last.prevColor = "red"
    /\ settings.foregroundColor = ""


---------------------------------------------------------------------------
(* Persistence, teardown and the revert timer: C11 - C13 *)

\* an edit of the settings panel ran last
EditRan == last.op \in {"background", "foreground", "duration"}

\* C11: every edit of the settings panel hands the settings it leaves to
\* saveData, and whenever no write is pending, loading the persisted blob
\* gives the settings in memory; the blob written last holds the three
\* fields of the settings.
SaveRoundTrips ==
    /\ EditRan => /\ writes # <<>>
                  /\ writes[Len(writes)] = saveSettings(settings)
    /\ (settings # Undefined /\ writes = <<>>)
           => loadSettings(persisted) = settings
    /\ (last.op = "saved" /\ writes = <<>>)
           => /\ persisted.has = Fields
              /\ \A f \in Fields : persisted[f] = settings[f]

\* the last write landed after the plugin was unloaded: the blob that held
\* no field holds the edited duration and foreground
SaveRoundTripWitness ==
    /\ last.op = "saved"
    /\ writes = <<>>
    /\ phase = "unloaded"
    /\ persisted = Blob(Fields, DEFAULT_SETTINGS.backgroundColor, "red", 0)
    /\ settings.duration = 0
    /\ settings.foregroundColor = "red"

\* C12: onunload called again after onunload, or called when neither the
\* style node nor a live property is there, leaves the style node and the
\* live properties as they are.
TeardownIdempotent ==
    [][(last'.op = "onunload"
          /\ (last.op = "onunload" \/ (~styleInjected /\ rootStyle = NoStyle)))
          => UNCHANGED <<styleInjected, rootStyle>>]_vars

\* onunload ran twice in a row, after a copy event had set the properties
TeardownTwiceWitness ==
    /\ last.op = "onunload"
    /\ last.kind = "onunload"
    /\ nextTimerId > 1
    /\ ~styleInjected

\* C13: every pending revert timer is the one the stored handle names, so
\* at most one is pending and no timer of an earlier copy event is left to
\* fire after a newer copy event.
OneRevertTimer ==
    /\ \A t \in timers : t.kind = "revert" => t.id = highlightTimeout
    /\ Cardinality({t \in timers : t.kind = "revert"}) <= 1

\* a second copy event was processed while the first one's timer was
\* pending
OneRevertTimerWitness ==
    /\ CopyProcessed
    /\ session.restarted
    /\ highlightTimeout > 1
    /\ Cardinality({t \in timers : t.kind = "revert"}) = 1

---------------------------------------------------------------------------
(* Who changes the highlight: C18 - C20 *)

\* the revert timer's callback ran last
RevertRan == last.op = "timeout" /\ last.kind = "revert"

\* an edit of the settings panel ran, or a write of the settings was done
EditOrSaveRan == EditRan \/ last.op = "saved"

\* C18 as stated: an edit of the settings panel and a save leave the root
\* marker class, the live style properties and the pending timers
\* unchanged, and only a processed copy event or the expiry of its revert
\* timer changes the class or the live style properties.
OnlyCopyChangesHighlight ==
    [][/\ EditOrSaveRan' => UNCHANGED <<rootStyle, classActive, highlightTimeout,
                                  timers, markers>>
       /\ (rootStyle' # rootStyle \/ classActive' # classActive)
              => (CopyProcessed' \/ RevertRan')]_vars

\* C18 amended: an edit of the settings panel and a save leave the root
\* marker class, the live style properties and the pending timers
\* unchanged; the
\* class changes only at a processed copy event or at the expiry of its
\* revert timer; the live style properties change only at a processed copy
\* event or at onunload of variant B, which removes them.
OnlyCopyOrTeardownChangesHighlight ==
    [][/\ EditOrSaveRan' => UNCHANGED <<rootStyle, classActive, highlightTimeout,
                                  timers, markers>>
       /\ classActive' # classActive => (CopyProcessed' \/ RevertRan')
       /\ rootStyle' # rootStyle
              => \/ CopyProcessed'
                 \/ (last'.op = "onunload" /\ variant = "B"
                       /\ rootStyle' = NoStyle)]_vars

\* the duration was edited while Highlighting: the pending revert timer
\* and the duration property still carry the duration of the copy event
EditWhileHighlightingWitness ==
    /\ last.op = "duration"
    /\ classActive
    /\ settings.duration # last.prevDuration
    /\ rootStyle.dur = liveDuration(last.prevDuration)
    /\ \E t \in timers : /\ t.id = highlightTimeout
                         /\ t.delay = last.prevDuration
                         /\ t.left > 0

\* C19: the root marker class is present exactly when a revert timer is
\* pending, and the stored handle is non-null exactly when it names a
\* pending revert timer.
HandleTracksTimer ==
    /\ classActive <=> (\E t \in timers : t.kind = "revert")
    /\ highlightTimeout # Null
           <=> (\E t \in timers : t.kind = "revert" /\ t.id = highlightTimeout)
    /\ highlightTimeout = Null => \A t \in timers : t.kind # "revert"

\* time passed in a session that a second copy event had restarted
HandleTracksTimerWitness ==
    /\ last.op = "tick"
    /\ session.restarted
    /\ session.elapsed > 0
    /\ classActive
    /\ \E t \in timers : t.id = highlightTimeout /\ t.left > 0

\* C20: onunload leaves the root marker class, the stored handle, the
\* pending timers and the legacy markers as they are, and a class present
\* after onunload is eventually removed by the revert timer.
UnloadKeepsHighlightUntilRevert ==
    /\ [][last'.op = "onunload"
            => UNCHANGED <<classActive, highlightTimeout, timers, markers>>]_vars
    /\ (phase = "unloaded" /\ classActive)
           ~> (phase = "unloaded" /\ ~classActive /\ highlightTimeout = Null)

\* the revert timer fired after onunload, a legacy marker still being live
RevertAfterUnloadWitness ==
    /\ phase = "unloaded"
    /\ RevertRan
    /\ ~classActive
    /\ session.state = "closed"
    /\ session.elapsed > 0

---------------------------------------------------------------------------
(* Legacy range highlighter: C14 - C17, under LegacySpec *)

\* the copy event that ran last left a new range marker
MarkerCreated ==
    CopyProcessed /\ \E m \in markers : m.id = nextTimerId - 1 /\ m.age = 0

\* C14: a range marker stays no longer than the duration configured at the
\* copy event that created it and is cleared exactly that long after its
\* creation, whatever copy events follow; at most one revert timer is
\* pending meanwhile.
MarkerClearedAfterDuration ==
    /\ [](\A m \in markers :
            /\ m.age <= m.duration
            /\ \E t \in timers : t.id = m.id /\ t.kind = "marker")
    /\ [][\A m \in markers :
            (\A n \in markers' : n.id # m.id) => m.age = m.duration]_vars
    /\ [](Cardinality({t \in timers : t.kind = "revert"}) <= 1)

\* a is not after b in document order: line first, then column
NotAfter(a, b) == a.line < b.line \/ (a.line = b.line /\ a.ch <= b.ch)

\* C15: the range marked for the first selection runs from the earlier of
\* its two ends to the later one in document order, whichever of them is
\* the anchor; the `from` of a marker never follows its `to`.
RangeNormalized ==
    /\ \A m \in markers : NotAfter(m.from, m.to)
    /\ MarkerCreated =>
         \E m \in markers :
            /\ m.id = nextTimerId - 1
            /\ \A a \in LegacyPositions, b \in LegacyPositions :
                 (NotAfter(a, b)
                    /\ {last.editor.sels[1].anchor, last.editor.sels[1].head}
                         = {a, b})
                   => m.from = a /\ m.to = b
    /\ \A a \in LegacyPositions, b \in LegacyPositions :
         markRange(Sel(a, b)) = markRange(Sel(b, a))

\* the selection from line 2 col 5 back to line 1 col 3 was marked while a
\* marker of the same range was live
RangeNormalizedWitness ==
    /\ MarkerCreated
    /\ last.editor.sels = <<Sel(Pos(2, 5), Pos(1, 3))>>
    /\ \A m \in markers : m.from = Pos(1, 3) /\ m.to = Pos(2, 5)
    /\ Cardinality(markers) = 2

\* C16: a copy event leaves a new range marker exactly when it was
\* processed in source mode on an editor that is not modern (state-based
\* API present and legacy handle absent) and whose handle marks a range;
\* the classification is that of the editor of this copy event.
MarkerOnlyOnLegacyPath ==
    last.op = "copy" =>
       (MarkerCreated
          <=> /\ last.view = "source"
              /\ ~(last.editor.hasState /\ last.editor.cm = "absent")
              /\ last.editor.cm = "cm5"
              /\ last.editor.sels # <<>>)

\* a copy event on a modern editor followed one on a legacy editor whose
\* marker is still live
MarkerOnlyOnLegacyPathWitness ==
    /\ CopyProcessed
    /\ last.view = "source"
    /\ last.editor = ModernEditor
    /\ markers # {}
    /\ ~MarkerCreated
    /\ nextTimerId = 4

\* the copy event that ran last reached the legacy range highlighter with
\* a handle that is missing or cannot mark, or with no selection
CannotMark ==
    /\ CopyProcessed
    /\ last.view = "source"
    /\ ~(last.editor.hasState /\ last.editor.cm = "absent")
    /\ (last.editor.cm \in {"absent", "undefined", "bare"}
          \/ last.editor.sels = <<>>)

\* C17: such a copy event creates no marker and schedules one timer only,
\* the revert timer, which is pending with the whole duration, the root
\* marker class being present.
NoMarkWithoutCapability ==
    CannotMark =>
       /\ \A m \in markers : m.id < highlightTimeout
       /\ \A t \in timers : t.kind = "marker" => t.id < highlightTimeout
       /\ nextTimerId = highlightTimeout + 1
       /\ classActive
       /\ \E t \in timers : /\ t.id = highlightTimeout
                            /\ t.kind = "revert"
                            /\ t.delay = settings.duration
                            /\ t.left = Max(0, settings.duration)
       /\ rootStyle = applyStyles(settings)

\* a handle without markText met a selection while an older marker was live
NoMarkWitness ==
    /\ CannotMark
    /\ last.editor.cm = "bare"
    /\ last.editor.sels # <<>>
    /\ Cardinality(markers) = 1
    /\ session.restarted

=============================================================================
